---- MODULE Spec2Model ----
(***************************************************************************)
(* Model of prefetch-urls.mjs: the batch driver main(), the metadata       *)
(* resolver getImageUrl(), the RPC caller callRPC() and the ABI codec      *)
(* encodeTokenURI()/decodeABIString().                                     *)
(*                                                                         *)
(* Strings are sequences of characters.  The alphabet is abstract: a       *)
(* character is one lexeme of the texts the program handles (a URI scheme, *)
(* a JSON punctuation mark, a path segment), so that startsWith, split,    *)
(* replace and slice are computed position by position as in the source.   *)
(* Hex strings are sequences of the sixteen hex digits.                    *)
(***************************************************************************)
EXTENDS Integers, Sequences, FiniteSets, TLC

\* ------------------------------------------------------------------ bounds
\* The id space of main's loop (10000 in the source), scaled down.
NumIds == 3
\* The chunk size BATCH (50 in the source), scaled down.
BATCH == 2
\* Number of runs of main that one behaviour follows.
MaxRuns == 2

\* Longest string of the exhaustive part of the codec's inputs.
MaxStr == 2

Ids == 0 .. (NumIds - 1)

\* --------------------------------------------------------- string helpers
Min(a, b) == IF a < b THEN a ELSE b

\* String.prototype.slice(from, to) with 0-based, end-exclusive indices,
\* both clamped to the length as JavaScript does.
Slice(s, from, to) == SubSeq(s, Min(from, Len(s)) + 1, Min(to, Len(s)))

\* String.prototype.startsWith
StartsWith(s, p) == Len(s) >= Len(p) /\ SubSeq(s, 1, Len(p)) = p

\* Index of the first occurrence of character c in s at or after position at
\* (1-based), or 0 when there is none.
RECURSIVE IndexFrom(_, _, _)
IndexFrom(s, c, at) ==
    IF at > Len(s) THEN 0
    ELSE IF s[at] = c THEN at
    ELSE IndexFrom(s, c, at + 1)

\* s.split(',')[1]: the text between the first and the second comma (or the
\* end of the string); undefined ("none") when s has no comma.
SplitSecond(s) ==
    LET a == IndexFrom(s, ",", 1) IN
    IF a = 0 THEN [def |-> FALSE, s |-> <<>>]
    ELSE LET b == IndexFrom(s, ",", a + 1) IN
         [def |-> TRUE,
          s   |-> IF b = 0 THEN SubSeq(s, a + 1, Len(s)) ELSE SubSeq(s, a + 1, b - 1)]

\* s.replace('ipfs://', ''): removes the first occurrence only.
RemoveFirstIpfs(s) ==
    LET a == IndexFrom(s, "ipfs://", 1) IN
    IF a = 0 THEN s ELSE SubSeq(s, 1, a - 1) \o SubSeq(s, a + 1, Len(s))

Repeat(c, n) == [j \in 1 .. n |-> c]

\* ------------------------------------------------------------ the alphabet
\* The characters of the modelled texts; a character's byte value is its
\* position in this list.
Alphabet ==
    << "data:application/json", ";base64", ",", "ipfs://", "https://",
       "{", "}", "\"", "\"image\":", "\"image_url\":", "\"name\":",
       "meta", "img", "abc", "1",
       "%7B", "%7D", "%22", "%2C", "%",
       "b0", "b1", "b2", "b3", "b4", "b5", "b6", "b7", "b8" >>

CharCode(c) == CHOOSE n \in 1 .. Len(Alphabet) : Alphabet[n] = c

HexDigits == << "0", "1", "2", "3", "4", "5", "6", "7",
                "8", "9", "a", "b", "c", "d", "e", "f" >>

\* Value of a hex digit, -1 for any other character.
HexVal(d) ==
    IF \E n \in 1 .. 16 : HexDigits[n] = d
    THEN (CHOOSE n \in 1 .. 16 : HexDigits[n] = d) - 1
    ELSE -1

\* Number.prototype.toString(16), most significant digit first.
RECURSIVE ToHex(_)
ToHex(n) ==
    IF n < 16 THEN <<HexDigits[n + 1]>>
    ELSE ToHex(n \div 16) \o <<HexDigits[(n % 16) + 1]>>

\* String.prototype.padStart(width, '0')
PadStart(s, width) == Repeat("0", width - Len(s)) \o s

\* ----------------------------------------------------------- the ABI codec
WordHex == 64
HeadHex == 128

Selector == << "c", "8", "7", "b", "5", "6", "d", "d" >>

encodeTokenURI(tokenId) == <<"0", "x">> \o Selector \o PadStart(ToHex(tokenId), WordHex)

\* parseInt(h, 16): the value of the longest prefix of hex digits.  Values
\* above LenCap are reported as LenCap: the only use is a slice bound, which
\* saturates at the length of the string.
LenCap == 4095
parseInt16(h) ==
    LET bad == { j \in 1 .. Len(h) : HexVal(h[j]) < 0 }
        n   == IF bad = {} THEN Len(h) ELSE (CHOOSE j \in bad : \A o \in bad : j <= o) - 1
        dig(j) == IF j >= 1 THEN HexVal(h[j]) ELSE 0
    IN  IF \E j \in 1 .. (n - 3) : HexVal(h[j]) > 0 THEN LenCap
        ELSE dig(n - 2) * 256 + dig(n - 1) * 16 + dig(n)

\* Buffer.from(strHex, 'hex').toString('utf8'): one character per pair of hex
\* digits; decoding stops at the first pair that is not hex, and a trailing
\* single digit is dropped.  A byte that is no character of the alphabet
\* decodes to the replacement character.
RECURSIVE HexToText(_, _)
HexToText(h, at) ==
    IF at + 1 > Len(h) \/ HexVal(h[at]) < 0 \/ HexVal(h[at + 1]) < 0 THEN <<>>
    ELSE LET b == HexVal(h[at]) * 16 + HexVal(h[at + 1]) IN
         << IF b \in 1 .. Len(Alphabet) THEN Alphabet[b] ELSE "?" >>
             \o HexToText(h, at + 2)

Null == [def |-> FALSE, s |-> <<>>]
Str(s) == [def |-> TRUE, s |-> s]

\* A variant of the decoder with a defect, used to test the properties: the
\* length word is taken as a count of hex digits, not of bytes.
decodeABIStringDigits(hex) ==
    LET data == IF StartsWith(hex, <<"0", "x">>) THEN Slice(hex, 2, Len(hex)) ELSE hex IN
    IF Len(data) < HeadHex THEN Null
    ELSE LET length == parseInt16(Slice(data, WordHex, HeadHex))
             strHex == Slice(data, HeadHex, HeadHex + length)
         IN  Str(HexToText(strHex, 1))

decodeABIString(hex) ==
    LET data == IF StartsWith(hex, <<"0", "x">>) THEN Slice(hex, 2, Len(hex)) ELSE hex IN
    IF Len(data) < HeadHex THEN Null
    ELSE LET length == parseInt16(Slice(data, WordHex, HeadHex))
             strHex == Slice(data, HeadHex, HeadHex + length * 2)
         IN  Str(HexToText(strHex, 1))

\* The contract's side: the ABI encoding of a dynamic string (offset word,
\* length word, payload padded to a word boundary), as an eth_call result.
RECURSIVE TextToHex(_)
TextToHex(s) ==
    IF s = <<>> THEN <<>>
    ELSE PadStart(ToHex(CharCode(Head(s))), 2) \o TextToHex(Tail(s))

AbiEncodeString(s) ==
    LET payload == TextToHex(s)
        padded  == ((Len(payload) + WordHex - 1) \div WordHex) * WordHex
    IN  <<"0", "x">> \o PadStart(ToHex(32), WordHex) \o PadStart(ToHex(Len(s)), WordHex)
            \o payload \o Repeat("0", padded - Len(payload))

\* ------------------------------------------------------- metadata decoding
\* Buffer.from(text, 'base64').toString(): the base64 letters of the model and
\* the characters they decode to; a character outside the base64 alphabet is
\* skipped, as Node does.
B64Letters == << "b0", "b1", "b2", "b3", "b4", "b5", "b6", "b7", "b8" >>
B64Plain   == << "{", "}", "\"", "\"image\":", "\"image_url\":", ",",
                "ipfs://", "https://", "abc" >>

RECURSIVE Base64Decode(_)
Base64Decode(s) ==
    IF s = <<>> THEN <<>>
    ELSE LET c == Head(s) IN
         (IF \E n \in 1 .. Len(B64Letters) : B64Letters[n] = c
          THEN << B64Plain[CHOOSE n \in 1 .. Len(B64Letters) : B64Letters[n] = c] >>
          ELSE <<>>) \o Base64Decode(Tail(s))

RECURSIVE Base64Encode(_)
Base64Encode(s) ==
    IF s = <<>> THEN <<>>
    ELSE << B64Letters[CHOOSE n \in 1 .. Len(B64Plain) : B64Plain[n] = Head(s)] >>
             \o Base64Encode(Tail(s))

\* decodeURIComponent: an escape sequence becomes its character, a lone "%"
\* is malformed (URIError), every other character stands for itself.
PctEscapes == << "%7B", "%7D", "%22", "%2C" >>
PctPlain   == << "{", "}", "\"", "," >>

RECURSIVE PercentDecodeFrom(_, _, _)
PercentDecodeFrom(s, at, acc) ==
    IF at > Len(s) THEN [ok |-> TRUE, s |-> acc]
    ELSE IF s[at] = "%" THEN [ok |-> FALSE, s |-> <<>>]
    ELSE IF \E n \in 1 .. Len(PctEscapes) : PctEscapes[n] = s[at]
    THEN PercentDecodeFrom(s, at + 1,
             Append(acc, PctPlain[CHOOSE n \in 1 .. Len(PctEscapes) : PctEscapes[n] = s[at]]))
    ELSE PercentDecodeFrom(s, at + 1, Append(acc, s[at]))

decodeURIComponent(s) == PercentDecodeFrom(s, 1, <<>>)

\* A JSON value of a metadata member: absent (undefined), a string or a number.
Absent == [t |-> "absent", s |-> <<>>]
JStr(s) == [t |-> "str", s |-> s]
JNum(s) == [t |-> "num", s |-> s]

NoMetadata == [ok |-> FALSE, image |-> Absent, image_url |-> Absent]

MemberKeys == { "\"image\":", "\"image_url\":", "\"name\":" }

\* JSON.parse of a metadata text: "{" member ("," member)* "}" where a member
\* is a key followed by a quoted string or a number; anything else is a
\* SyntaxError (ok = FALSE).  A repeated key keeps its last value.
RECURSIVE ParseMembers(_, _, _)
ParseMembers(txt, at, acc) ==
    IF at + 1 > Len(txt) \/ txt[at] \notin MemberKeys THEN NoMetadata
    ELSE
      LET key   == txt[at]
          isStr == txt[at + 1] = "\""
          close == IF isStr THEN IndexFrom(txt, "\"", at + 2) ELSE 0
          isNum == txt[at + 1] = "1"
          val   == IF isStr THEN JStr(SubSeq(txt, at + 2, close - 1)) ELSE JNum(<<txt[at + 1]>>)
          next  == IF isStr THEN close + 1 ELSE at + 2
          acc2  == IF key = "\"image\":" THEN [acc EXCEPT !.image = val]
                   ELSE IF key = "\"image_url\":" THEN [acc EXCEPT !.image_url = val]
                   ELSE acc
      IN  IF (isStr /\ close = 0) \/ (~isStr /\ ~isNum) \/ next > Len(txt) THEN NoMetadata
          ELSE IF txt[next] = "}" THEN (IF next = Len(txt) THEN acc2 ELSE NoMetadata)
          ELSE IF txt[next] = "," THEN ParseMembers(txt, next + 1, acc2)
          ELSE NoMetadata

JSONparseMetadata(txt) ==
    LET empty == [ok |-> TRUE, image |-> Absent, image_url |-> Absent] IN
    IF Len(txt) < 2 \/ txt[1] # "{" THEN NoMetadata
    ELSE IF txt[2] = "}" THEN (IF Len(txt) = 2 THEN empty ELSE NoMetadata)
    ELSE ParseMembers(txt, 2, empty)

\* JavaScript truthiness of a member value.
Truthy(v) == (v.t = "str" /\ v.s # <<>>) \/ v.t = "num"

Gateway == << "https://", "cloudflare-ipfs.com/ipfs/" >>

\* Variants of the image choice with a defect, used to test the properties:
\* image_url is never consulted; a number is returned as text.
ImageNoFallback(metadata) ==
    IF ~metadata.ok \/ metadata.image.t # "str" \/ metadata.image.s = <<>> THEN Null
    ELSE IF StartsWith(metadata.image.s, <<"ipfs://">>)
         THEN Str(Gateway \o RemoveFirstIpfs(metadata.image.s))
         ELSE Str(metadata.image.s)

\* Lines 64-66 of getImageUrl, inside its try block: the image field, its
\* fallback, the gateway rewrite and the final "img || null".  A number has
\* no startsWith: the TypeError is caught and the result is null.
ImageOf(metadata) ==
    LET img == IF Truthy(metadata.image) THEN metadata.image
               ELSE IF Truthy(metadata.image_url) THEN metadata.image_url
               ELSE JStr(<<>>)
    IN  IF ~metadata.ok \/ img.t # "str" THEN Null
        ELSE LET out == IF StartsWith(img.s, <<"ipfs://">>)
                        THEN Gateway \o RemoveFirstIpfs(img.s)
                        ELSE img.s
             IN  IF out = <<>> THEN Null ELSE Str(out)

Base64Prefix  == << "data:application/json", ";base64", "," >>
PercentPrefix == << "data:application/json", "," >>

\* The branch of getImageUrl (lines 52-62) a token URI takes.
UriForm(tokenURI) ==
    IF StartsWith(tokenURI, Base64Prefix) THEN "base64"
    ELSE IF StartsWith(tokenURI, PercentPrefix) THEN "percent"
    ELSE IF StartsWith(tokenURI, <<"ipfs://">>) THEN "ipfs"
    ELSE "http"

\* Lines 52-55: the metadata of the two inline forms, parsed from
\* tokenURI.split(',')[1]; a URIError or SyntaxError leaves no metadata.
InlineMetadata(tokenURI) ==
    LET part == SplitSecond(tokenURI) IN
    IF UriForm(tokenURI) = "base64"
    THEN JSONparseMetadata(Base64Decode(part.s))
    ELSE LET dec == decodeURIComponent(part.s) IN
         IF dec.ok THEN JSONparseMetadata(dec.s) ELSE NoMetadata

\* Lines 52-55 and 64-66 for the two inline forms.
InlineResult(tokenURI) == ImageOf(InlineMetadata(tokenURI))

\* Lines 56-61: the URL of the metadata request of the two fetched forms.
MetadataUrl(tokenURI) ==
    IF UriForm(tokenURI) = "ipfs" THEN Gateway \o RemoveFirstIpfs(tokenURI)
    ELSE tokenURI

\* ------------------------------------------------------ the external world
RPCS == << "https://cloudflare-eth.com", "https://rpc.ankr.com/eth",
           "https://ethereum.publicnode.com" >>

\* What an endpoint does with one POST: the fetch or res.json() throws, the
\* body has no truthy result, the body carries a result, or the awaited
\* promise never settles (the code sets no timeout).
Throws     == [t |-> "throw", hex |-> <<>>]
NoResult   == [t |-> "noresult", hex |-> <<>>]
Result(h)  == [t |-> "result", hex |-> h]
Hangs      == [t |-> "hang", hex |-> <<>>]

\* What a metadata URL does with one GET: the body served at url; a request
\* for any other URL, or for a scenario that serves nothing, throws; or no
\* GET is ever answered.
Serves(url, body) == [def |-> TRUE, hang |-> FALSE, url |-> url, body |-> body]
ServesNothing     == [def |-> FALSE, hang |-> FALSE, url |-> <<>>, body |-> <<>>]
NeverAnswers      == [def |-> FALSE, hang |-> TRUE, url |-> <<>>, body |-> <<>>]

MetaImage(v)    == << "{", "\"image\":", "\"" >> \o v \o << "\"", "}" >>
MetaImageUrl(v) == << "{", "\"image\":", "\"", "\"", ",", "\"image_url\":", "\"" >>
                       \o v \o << "\"", "}" >>

\* The behaviours of the outside world for one token: the answers of the
\* three endpoints to its eth_call and the metadata document on the web.
Scenarios ==
    << \* inline base64 metadata with an ipfs image, first endpoint answers
       [rpc  |-> << Result(AbiEncodeString(Base64Prefix \o
                        Base64Encode(MetaImage(<<"ipfs://", "abc">>)))),
                    Throws, Throws >>,
        http |-> ServesNothing],
       \* two endpoints fail, the third returns an ipfs token URI whose
       \* metadata, served by the gateway, has only image_url
       [rpc  |-> << Throws, NoResult,
                    Result(AbiEncodeString(<<"ipfs://", "meta">>)) >>,
        http |-> Serves(Gateway \o <<"meta">>, MetaImageUrl(<<"https://", "img">>))],
       \* every endpoint fails
       [rpc  |-> << Throws, NoResult, Throws >>,
        http |-> ServesNothing],
       \* a plain URL whose fetch throws
       [rpc  |-> << NoResult, Result(AbiEncodeString(<<"https://", "meta">>)), Throws >>,
        http |-> ServesNothing],
       \* a result too short to hold a string
       [rpc  |-> << Result(<<"0", "x">> \o Repeat("0", WordHex)), Throws, Throws >>,
        http |-> ServesNothing],
       \* percent-encoded inline metadata whose image is empty
       [rpc  |-> << Result(AbiEncodeString(PercentPrefix \o
                        << "%7B", "\"image\":", "%22", "%22", "%7D" >>)),
                    Throws, Throws >>,
        http |-> ServesNothing],
       \* the first endpoint throws and the second never answers
       [rpc  |-> << Throws, Hangs, Throws >>,
        http |-> ServesNothing],
       \* a plain URL whose metadata request is never answered
       [rpc  |-> << Result(AbiEncodeString(<<"https://", "meta">>)), Throws, Throws >>,
        http |-> NeverAnswers] >>

\* A world assigns a scenario to every token id: consecutive ids get
\* consecutive scenarios, or every id resolves, or every id fails.
Worlds ==
    { [id \in Ids |-> ((o + id) % Len(Scenarios)) + 1] : o \in 0 .. (Len(Scenarios) - 1) }
        \cup { [id \in Ids |-> 1], [id \in Ids |-> 3] }

\* The token id a call data string asks for (the contract's decoding).
TokenOfCallData(data) == parseInt16(Slice(data, 2 + Len(Selector), Len(data)))

\* The answer of endpoint k to eth_call with the given call data.
RpcAnswer(w, k, data) ==
    LET id == TokenOfCallData(data) IN
    IF id \in Ids THEN Scenarios[w[id]].rpc[k] ELSE NoResult

\* The answer to the metadata GET that the resolution of id issues.
HttpAnswer(w, id, url) ==
    LET h == Scenarios[w[id]].http IN
    IF h.hang THEN [t |-> "hang", body |-> <<>>]
    ELSE IF h.def /\ h.url = url THEN [t |-> "ok", body |-> h.body]
    ELSE [t |-> "throw", body |-> <<>>]

\* ------------------------------------------- getImageUrl as a pending task
\* pc: "idle" (not invoked), "rpc" (POST to RPCS[k] in flight), "fetch"
\* (metadata GET of url in flight), "done" (returned res).
IdleTask      == [pc |-> "idle", k |-> 0, url |-> <<>>, res |-> Null]
StartedTask   == [pc |-> "rpc", k |-> 1, url |-> <<>>, res |-> Null]
Returned(res) == [pc |-> "done", k |-> 0, url |-> <<>>, res |-> res]

\* Lines 48-62 once callRPC has returned hex: decode, classify, and either
\* finish (inline forms, or nothing decoded) or issue the metadata request.
AfterHex(hex) ==
    LET tokenURI == decodeABIString(hex) IN
    IF ~tokenURI.def \/ tokenURI.s = <<>> THEN Returned(Null)
    ELSE IF UriForm(tokenURI.s) \in {"base64", "percent"}
    THEN Returned(InlineResult(tokenURI.s))
    ELSE [pc |-> "fetch", k |-> 0, url |-> MetadataUrl(tokenURI.s), res |-> Null]

\* A variant of callRPC with a defect, used to test the properties: it gives
\* up after the first endpoint that yields no result.
AfterRpcFirstOnly(t, ans) ==
    IF ans.t = "result" /\ ans.hex # <<>> THEN AfterHex(ans.hex)
    ELSE Returned(Null)

\* A variant of getImageUrl with a defect, used to test the properties: the
\* error callRPC throws is not caught, the promise of the call rejects.
AfterRpcUncaught(t, ans) ==
    IF ans.t = "result" /\ ans.hex # <<>> THEN AfterHex(ans.hex)
    ELSE IF t.k < Len(RPCS) THEN [t EXCEPT !.k = t.k + 1]
    ELSE [pc |-> "threw", k |-> 0, url |-> <<>>, res |-> Null]

\* callRPC's loop (lines 22-33) at the reply of endpoint t.k: a truthy result
\* is returned to getImageUrl, otherwise the next endpoint is contacted, and
\* after the last one the error thrown is caught at line 67.
AfterRpc(t, ans) ==
    IF ans.t = "result" /\ ans.hex # <<>> THEN AfterHex(ans.hex)
    ELSE IF t.k < Len(RPCS) THEN [t EXCEPT !.k = t.k + 1]
    ELSE Returned(Null)

\* Lines 57-66 at the reply of the metadata request.
AfterFetch(ans) ==
    IF ans.t = "throw" THEN Returned(Null)
    ELSE Returned(ImageOf(JSONparseMetadata(ans.body)))

\* The requests of one resolution: the endpoints callRPC has contacted, in
\* order; whether callRPC reached its throw (line 33); the metadata GETs
\* issued; the requests sent and not yet completed.
NoRequests   == [asked |-> <<>>, raised |-> FALSE, gets |-> 0, open |-> 0]
FirstRequest == [asked |-> <<StartedTask.k>>, raised |-> FALSE, gets |-> 0, open |-> 1]

\* The requests of a resolution after the pending request of its task t
\* completed with ans and the task went on as t2.
RequestsAfter(l, t, ans, t2) ==
    [asked  |-> IF t2.pc = "rpc" THEN Append(l.asked, t2.k) ELSE l.asked,
     raised |-> l.raised \/ (t.pc = "rpc" /\ t2.pc # "rpc"
                                /\ ~(ans.t = "result" /\ ans.hex # <<>>)),
     gets   |-> IF t2.pc = "fetch" THEN l.gets + 1 ELSE l.gets,
     open   |-> IF t2.pc \in {"rpc", "fetch"} THEN l.open ELSE l.open - 1]

\* ------------------------------------------------------- the output file
\* The result mapping: for every id either no key (Null) or a string value.
NoUrls == [id \in Ids |-> Null]

\* JavaScript truthiness of urls[id] (line 84) and of url (line 93).
TruthyUrl(v) == v.def /\ v.s # <<>>

\* The text of the file, as JSON tokens.
Open        == [t |-> "{", k |-> -1, v |-> <<>>]
Close       == [t |-> "}", k |-> -1, v |-> <<>>]
Entry(k, v) == [t |-> "entry", k |-> k, v |-> v]

\* JSON.stringify(urls): the keys in ascending numeric order.
RECURSIVE EntriesFrom(_, _)
EntriesFrom(m, id) ==
    IF id >= NumIds THEN <<>>
    ELSE (IF m[id].def THEN << Entry(id, m[id].s) >> ELSE <<>>) \o EntriesFrom(m, id + 1)

JSONstringify(m) == <<Open>> \o EntriesFrom(m, 0) \o <<Close>>

\* JSON.parse(text): a mapping when the text is a complete object, else a
\* SyntaxError (ok = FALSE).  A repeated key keeps its last value.
JSONparse(text) ==
    LET wellFormed ==
            /\ Len(text) >= 2
            /\ text[1] = Open
            /\ text[Len(text)] = Close
            /\ \A n \in 2 .. (Len(text) - 1) : text[n].t = "entry"
        valueOf(id) ==
            LET at == { n \in 2 .. (Len(text) - 1) : text[n].k = id } IN
            IF at = {} THEN Null
            ELSE Str(text[CHOOSE n \in at : \A o \in at : o <= n].v)
    IN  IF wellFormed THEN [ok |-> TRUE, val |-> [id \in Ids |-> valueOf(id)]]
        ELSE [ok |-> FALSE, val |-> NoUrls]

NoFile       == [exists |-> FALSE, text |-> <<>>]
FileOf(text) == [exists |-> TRUE, text |-> text]

\* ------------------------------------------------------------- the driver
VARIABLES
    file,    \* ./public/image-urls.json: NoFile or FileOf(text)
    dir,     \* whether ./public exists
    world,   \* the external state: the scenario of every token id
    run,     \* number of runs of main started so far
    pc,      \* position of main: "init", "loop", "await", "write", "done",
             \*   "crashed" (uncaught SyntaxError), "killed" (interrupted)
    urls,    \* main's urls object
    todo,    \* main's todo array
    i,       \* the loop variable of line 90
    done,    \* main's done counter
    task,    \* the getImageUrl call of every id in this run
    settled, \* the ids of the current chunk in the order their calls returned
    calls,   \* history: how often getImageUrl was invoked for an id in this run
    fresh,   \* history: this run found no output file at startup
    world0,  \* history: the external state when this run started
    prev,    \* history: how the previous run ended, and with which mapping
    log,     \* history: the requests of every id's resolution in this run
    writes,  \* history: completed calls of fs.writeFileSync in this run
    arg,     \* the argument of the function that a function-level
             \*   specification applies
    ret      \* the value that function returned

vars == << file, dir, world, run, pc, urls, todo, i, done, task, settled, calls,
          fresh, world0, prev, log, writes, arg, ret >>

NoWorld == [id \in Ids |-> 0]
NoLog == [id \in Ids |-> NoRequests]
NotCalled == [called |-> FALSE]
NoPrev == [ended |-> "none", urls |-> NoUrls, fresh |-> FALSE, world |-> NoWorld]

\* Variants of the work list with a defect, used to test the properties:
\* every id whatever was loaded; the ids that are no key of the mapping.
RECURSIVE TodoAll(_, _)
TodoAll(m, id) == IF id >= NumIds THEN <<>> ELSE <<id>> \o TodoAll(m, id + 1)

RECURSIVE TodoByKey(_, _)
TodoByKey(m, id) ==
    IF id >= NumIds THEN <<>>
    ELSE (IF ~m[id].def THEN <<id>> ELSE <<>>) \o TodoByKey(m, id + 1)

\* Lines 82-85: the ids, in ascending order, whose loaded value is falsy.
RECURSIVE TodoFrom(_, _)
TodoFrom(m, id) ==
    IF id >= NumIds THEN <<>>
    ELSE (IF ~TruthyUrl(m[id]) THEN <<id>> ELSE <<>>) \o TodoFrom(m, id + 1)

\* A variant of the slice with a defect, used to test the properties: the
\* chunk takes one id too many, which the next chunk takes again.
BatchOverlap(list, at) == Slice(list, at, at + BATCH + 1)

\* Line 91: todo.slice(i, i + BATCH)
BatchAt(list, at) == Slice(list, at, at + BATCH)

InSeq(x, list) == \E n \in 1 .. Len(list) : list[n] = x

PosIn(x, list) == CHOOSE n \in 1 .. Len(list) : list[n] = x

\* Variants of the merge step with a defect, used to test the properties:
\* a fresh object per chunk; nothing merged when one call of the chunk failed;
\* a failed id stored with an empty value; results taken in completion order.
MergeOnlyBatch(m, batch, tasks) ==
    [id \in Ids |->
        IF InSeq(id, batch) /\ TruthyUrl(tasks[id].res) THEN tasks[id].res ELSE Null]

MergeAllOrNothing(m, batch, tasks) ==
    [id \in Ids |->
        IF InSeq(id, batch) /\ \A n \in 1 .. Len(batch) : TruthyUrl(tasks[batch[n]].res)
        THEN tasks[id].res ELSE m[id]]

MergeKeepEmpty(m, batch, tasks) ==
    [id \in Ids |->
        IF InSeq(id, batch)
        THEN (IF TruthyUrl(tasks[id].res) THEN tasks[id].res ELSE Str(<<>>))
        ELSE m[id]]

MergeByCompletion(m, batch, tasks) ==
    [id \in Ids |->
        IF InSeq(id, batch) /\ TruthyUrl(tasks[settled[PosIn(id, batch)]].res)
        THEN tasks[settled[PosIn(id, batch)]].res ELSE m[id]]

\* Line 93: results.forEach(({ id, url }) => { if (url) urls[id] = url; })
MergeResults(m, batch, tasks) ==
    [id \in Ids |->
        IF InSeq(id, batch) /\ TruthyUrl(tasks[id].res) THEN tasks[id].res ELSE m[id]]

Ended == pc \in {"init", "done", "crashed", "killed"}

Init ==
    /\ file = NoFile
    /\ dir = FALSE
    /\ world \in Worlds
    /\ run = 0
    /\ pc = "init"
    /\ urls = NoUrls
    /\ todo = <<>>
    /\ i = 0
    /\ done = 0
    /\ task = [id \in Ids |-> IdleTask]
    /\ settled = <<>>
    /\ calls = [id \in Ids |-> 0]
    /\ fresh = FALSE
    /\ world0 = NoWorld
    /\ prev = NoPrev
    /\ log = NoLog
    /\ writes = 0
    /\ arg = <<>>
    /\ ret = NotCalled

\* A variant of the startup with a defect, used to test the properties: the
\* SyntaxError of an unparseable file is caught and the run starts empty.
MainCatchesParse ==
    /\ Ended
    /\ run < MaxRuns
    /\ run' = run + 1
    /\ dir' = TRUE
    /\ prev' = [ended |-> pc, urls |-> urls, fresh |-> fresh, world |-> world0]
    /\ fresh' = ~file.exists
    /\ world0' = world
    /\ task' = [id \in Ids |-> IdleTask]
    /\ settled' = <<>>
    /\ calls' = [id \in Ids |-> 0]
    /\ i' = 0
    /\ done' = 0
    /\ LET loaded == IF file.exists /\ JSONparse(file.text).ok THEN JSONparse(file.text)
                     ELSE [ok |-> TRUE, val |-> NoUrls]
       IN  /\ urls' = loaded.val
           /\ todo' = TodoFrom(loaded.val, 0)
           /\ pc' = "loop"
    /\ log' = NoLog
    /\ writes' = 0
    /\ UNCHANGED << file, world, arg, ret >>

\* Lines 72-88: a run of main starts: mkdir, load the file if it exists (an
\* unparseable file throws out of main), compute the work list.
Main ==
    /\ Ended
    /\ run < MaxRuns
    /\ run' = run + 1
    /\ dir' = TRUE
    /\ prev' = [ended |-> pc, urls |-> urls, fresh |-> fresh, world |-> world0]
    /\ fresh' = ~file.exists
    /\ world0' = world
    /\ task' = [id \in Ids |-> IdleTask]
    /\ settled' = <<>>
    /\ calls' = [id \in Ids |-> 0]
    /\ i' = 0
    /\ done' = 0
    /\ LET loaded == IF file.exists THEN JSONparse(file.text)
                     ELSE [ok |-> TRUE, val |-> NoUrls]
       IN  IF loaded.ok
           THEN /\ urls' = loaded.val
                /\ todo' = TodoFrom(loaded.val, 0)
                /\ pc' = "loop"
           ELSE /\ urls' = NoUrls
                /\ todo' = <<>>
                /\ pc' = "crashed"
    /\ log' = NoLog
    /\ writes' = 0
    /\ UNCHANGED << file, world, arg, ret >>

\* A variant of the launch with a defect, used to test the properties:
\* getImageUrl is invoked for the whole rest of the work list at once.
LaunchAll ==
    /\ pc = "loop"
    /\ i < Len(todo)
    /\ LET batch == Slice(todo, i, Len(todo)) IN
         /\ task' = [id \in Ids |-> IF InSeq(id, batch) THEN StartedTask ELSE task[id]]
         /\ calls' = [id \in Ids |-> IF InSeq(id, batch) THEN calls[id] + 1 ELSE calls[id]]
         /\ log' = [id \in Ids |-> IF InSeq(id, batch) THEN FirstRequest ELSE log[id]]
    /\ settled' = <<>>
    /\ pc' = "await"
    /\ UNCHANGED << file, dir, world, run, urls, todo, i, done, fresh, world0, prev, writes, arg, ret >>

\* Lines 90-92: the next chunk is sliced and getImageUrl is invoked for each
\* of its ids, which sends the first eth_call of each.
Launch ==
    /\ pc = "loop"
    /\ i < Len(todo)
    /\ LET batch == BatchAt(todo, i) IN
         /\ task' = [id \in Ids |-> IF InSeq(id, batch) THEN StartedTask ELSE task[id]]
         /\ calls' = [id \in Ids |-> IF InSeq(id, batch) THEN calls[id] + 1 ELSE calls[id]]
         /\ log' = [id \in Ids |-> IF InSeq(id, batch) THEN FirstRequest ELSE log[id]]
    /\ settled' = <<>>
    /\ pc' = "await"
    /\ UNCHANGED << file, dir, world, run, urls, todo, i, done, fresh, world0, prev, writes, arg, ret >>

\* A variant of the reply with a defect, used to test the properties: a POST
\* that is never answered is given up as if it had thrown.
RpcReplyTimeout(id) ==
    /\ pc = "await"
    /\ task[id].pc = "rpc"
    /\ LET got == RpcAnswer(world, task[id].k, encodeTokenURI(id))
           ans == IF got.t = "hang" THEN Throws ELSE got
       IN  /\ task' = [task EXCEPT ![id] = AfterRpc(task[id], ans)]
           /\ log' = [log EXCEPT ![id] = RequestsAfter(log[id], task[id], ans, task'[id])]
    /\ settled' = IF task'[id].pc = "done" THEN Append(settled, id) ELSE settled
    /\ UNCHANGED << file, dir, world, run, pc, urls, todo, i, done, calls, fresh, world0, prev, writes, arg, ret >>

\* An RPC endpoint answers the pending POST of id's resolution.
RpcReply(id) ==
    /\ pc = "await"
    /\ task[id].pc = "rpc"
    /\ LET ans == RpcAnswer(world, task[id].k, encodeTokenURI(id)) IN
         /\ ans.t # "hang"
         /\ task' = [task EXCEPT ![id] = AfterRpc(task[id], ans)]
         /\ log' = [log EXCEPT ![id] = RequestsAfter(log[id], task[id], ans, task'[id])]
    /\ settled' = IF task'[id].pc = "done" THEN Append(settled, id) ELSE settled
    /\ UNCHANGED << file, dir, world, run, pc, urls, todo, i, done, calls, fresh, world0, prev, writes, arg, ret >>

\* The metadata GET of id's resolution completes.
FetchReply(id) ==
    /\ pc = "await"
    /\ task[id].pc = "fetch"
    /\ LET ans == HttpAnswer(world, id, task[id].url) IN
         /\ ans.t # "hang"
         /\ task' = [task EXCEPT ![id] = AfterFetch(ans)]
         /\ log' = [log EXCEPT ![id] = RequestsAfter(log[id], task[id], ans, task'[id])]
    /\ settled' = Append(settled, id)
    /\ UNCHANGED << file, dir, world, run, pc, urls, todo, i, done, calls, fresh, world0, prev, writes, arg, ret >>

\* A variant of the merge step with a defect, used to test the properties:
\* the results are merged as soon as one call of the chunk has returned.
MergeEarly ==
    /\ pc = "await"
    /\ LET batch == BatchAt(todo, i) IN
         /\ \E n \in 1 .. Len(batch) : task[batch[n]].pc = "done"
         /\ urls' = MergeResults(urls, batch, task)
         /\ done' = done + Len(batch)
    /\ pc' = "write"
    /\ UNCHANGED << file, dir, world, run, todo, i, task, settled, calls, fresh, world0, prev, log, writes, arg, ret >>

\* Lines 92-94: Promise.all resolves once every call of the chunk has
\* returned; the results are merged and the counter advanced.
Merge ==
    /\ pc = "await"
    /\ LET batch == BatchAt(todo, i) IN
         /\ \A n \in 1 .. Len(batch) : task[batch[n]].pc = "done"
         /\ urls' = MergeResults(urls, batch, task)
         /\ done' = done + Len(batch)
    /\ pc' = "write"
    /\ UNCHANGED << file, dir, world, run, todo, i, task, settled, calls, fresh, world0, prev, log, writes, arg, ret >>

\* A variant of the write step with a defect, used to test the properties:
\* the file is written after the last chunk only.
WriteAtEndOnly ==
    /\ pc = "write"
    /\ file' = IF i + BATCH >= Len(todo) THEN FileOf(JSONstringify(urls)) ELSE file
    /\ writes' = IF i + BATCH >= Len(todo) THEN writes + 1 ELSE writes
    /\ i' = i + BATCH
    /\ pc' = "loop"
    /\ UNCHANGED << dir, world, run, urls, todo, done, task, settled, calls, fresh, world0, prev, log, arg, ret >>

\* Lines 95-96 and the loop increment: the file is rewritten with the whole
\* mapping.
Write ==
    /\ pc = "write"
    /\ file' = FileOf(JSONstringify(urls))
    /\ writes' = writes + 1
    /\ i' = i + BATCH
    /\ pc' = "loop"
    /\ UNCHANGED << dir, world, run, urls, todo, done, task, settled, calls, fresh, world0, prev, log, arg, ret >>

\* A variant of the loop exit with a defect, used to test the properties:
\* the loop ends one chunk early.
FinishEarly ==
    /\ pc = "loop"
    /\ i + BATCH >= Len(todo)
    /\ pc' = "done"
    /\ UNCHANGED << file, dir, world, run, urls, todo, i, done, task, settled, calls, fresh, world0, prev, log, writes, arg, ret >>

\* Line 99: the loop is over, main returns.
Finish ==
    /\ pc = "loop"
    /\ i >= Len(todo)
    /\ pc' = "done"
    /\ UNCHANGED << file, dir, world, run, urls, todo, i, done, task, settled, calls, fresh, world0, prev, log, writes, arg, ret >>

\* The process is killed.  Its memory and its pending requests are gone.
\* fs.writeFileSync truncates the file and then writes the text: a kill
\* inside the call leaves any strict prefix of the text, a kill before it
\* leaves the file as it was.
Interrupt ==
    /\ pc \in {"loop", "await", "write"}
    /\ pc' = "killed"
    /\ \/ file' = file
       \/ /\ pc = "write"
          /\ \E n \in 0 .. (Len(JSONstringify(urls)) - 1) :
                 file' = FileOf(SubSeq(JSONstringify(urls), 1, n))
    /\ urls' = NoUrls
    /\ todo' = <<>>
    /\ i' = 0
    /\ done' = 0
    /\ task' = [id \in Ids |-> IdleTask]
    /\ settled' = <<>>
    /\ calls' = [id \in Ids |-> 0]
    /\ log' = NoLog
    /\ writes' = 0
    /\ UNCHANGED << dir, world, run, fresh, world0, prev, arg, ret >>

\* Between two runs the user deletes the output file.
DeleteFile ==
    /\ Ended
    /\ run < MaxRuns
    /\ file.exists
    /\ file' = NoFile
    /\ UNCHANGED << dir, world, run, pc, urls, todo, i, done, task, settled, calls, fresh, world0, prev, log, writes, arg, ret >>

\* Between two runs the on-chain or off-chain data change.
WorldChange ==
    /\ Ended
    /\ pc # "init"
    /\ run < MaxRuns
    /\ world' \in Worlds \ {world}
    /\ UNCHANGED << file, dir, run, pc, urls, todo, i, done, task, settled, calls, fresh, world0, prev, log, writes, arg, ret >>

Next ==
    \/ Main
    \/ Launch
    \/ \E id \in Ids : RpcReply(id)
    \/ \E id \in Ids : FetchReply(id)
    \/ Merge
    \/ Write
    \/ Finish
    \/ Interrupt
    \/ DeleteFile
    \/ WorldChange

Spec == Init /\ [][Next]_vars

\* ===================================================================== claims
\* The mapping a file holds, when it holds one.
HoldsMapping(f) == f.exists /\ JSONparse(f.text).ok
MappingOf(f) == JSONparse(f.text).val

\* One mapping contains every entry of another, with the same value.
Contains(big, small) == \A id \in Ids : small[id].def => big[id] = small[id]

Running == pc \in {"loop", "await", "write", "done"}

C2_SecondRunResolvesOnlyTheRest ==
    (run >= 2 /\ prev.ended = "done" /\ ~fresh /\ Running) =>
        /\ \A id \in Ids : TruthyUrl(prev.urls[id]) =>
               calls[id] = 0 /\ task[id].pc = "idle"
        /\ \A id \in Ids : InSeq(id, todo) <=> ~TruthyUrl(prev.urls[id])
        /\ Contains(urls, prev.urls)
        /\ pc = "done" =>
               \A id \in Ids : calls[id] = IF TruthyUrl(prev.urls[id]) THEN 0 ELSE 1

\* C2 witness: the second run has finished, having skipped an id the first
\* run resolved and attempted one the first run left unresolved.
C2_Witness ==
    /\ run = 2 /\ prev.ended = "done" /\ ~fresh /\ pc = "done"
    /\ \E a, b \in Ids :
          /\ TruthyUrl(prev.urls[a]) /\ calls[a] = 0
          /\ ~prev.urls[b].def /\ calls[b] = 1

\* C3: whenever the process is interrupted, the file is left as the last
\* completed write (or the startup) left it, and if it exists it parses to
\* a mapping.
C3_InterruptLeavesSnapshot ==
    [][ (pc # "killed" /\ pc' = "killed") =>
            file' = file /\ (file'.exists => HoldsMapping(file')) ]_vars

\* C4: once a chunk is written, every id attempted so far whose resolution
\* succeeded is in the mapping and in the file with its URL, every id whose
\* resolution failed is absent from both, and the file holds the mapping.
C4_FailureIsolated ==
    (pc = "loop" /\ i > 0) =>
        /\ HoldsMapping(file) /\ MappingOf(file) = urls
        /\ \A n \in 1 .. Min(i, Len(todo)) :
               IF TruthyUrl(task[todo[n]].res)
               THEN urls[todo[n]] = task[todo[n]].res
               ELSE ~urls[todo[n]].def

\* C4 witness: the chunk just written had one id that failed and one that
\* succeeded; the file holds the second and not the first.
C4_Witness ==
    /\ pc = "loop" /\ i > 0
    /\ \E n, o \in (i - BATCH + 1) .. Min(i, Len(todo)) :
          /\ task[todo[n]].pc = "done" /\ ~task[todo[n]].res.def
          /\ TruthyUrl(task[todo[o]].res)
          /\ HoldsMapping(file)
          /\ MappingOf(file)[todo[o]] = task[todo[o]].res
          /\ ~MappingOf(file)[todo[n]].def

\* C5: a request is in flight only for an id of the current chunk, and only
\* when every id of the earlier chunks has returned and the file holds the
\* results of the earlier chunks.
C5_ChunksSequential ==
    \A id \in Ids : task[id].pc \in {"rpc", "fetch"} =>
        /\ pc = "await"
        /\ \E n \in (i + 1) .. Min(i + BATCH, Len(todo)) : todo[n] = id
        /\ \A n \in 1 .. i :
               /\ task[todo[n]].pc = "done"
               /\ i > 0 => HoldsMapping(file)
               /\ TruthyUrl(task[todo[n]].res) =>
                      MappingOf(file)[todo[n]] = task[todo[n]].res

\* C5 witness: a request of the second chunk is in flight and the file holds
\* a result of the first chunk.
C5_Witness ==
    /\ pc = "await" /\ i > 0
    /\ \E id \in Ids : task[id].pc \in {"rpc", "fetch"}
    /\ \E n \in 1 .. i :
          TruthyUrl(task[todo[n]].res) /\ HoldsMapping(file)
              /\ MappingOf(file)[todo[n]] = task[todo[n]].res

\* ---------------------------------------------------------------------
\* The work list as a function of the loaded file: every JSON object from id
\* strings to strings is loaded once, by the startup of main.
FileValues == { Null, Str(<<>>), Str(<<"https://", "img">>), Str(<<"https://", "abc">>) }

InitTodo ==
    /\ \E m \in [Ids -> FileValues] : file = FileOf(JSONstringify(m))
    /\ dir = TRUE
    /\ world = [id \in Ids |-> 1]
    /\ run = 0
    /\ pc = "init"
    /\ urls = NoUrls
    /\ todo = <<>>
    /\ i = 0
    /\ done = 0
    /\ task = [id \in Ids |-> IdleTask]
    /\ settled = <<>>
    /\ calls = [id \in Ids |-> 0]
    /\ fresh = FALSE
    /\ world0 = NoWorld
    /\ prev = NoPrev
    /\ log = NoLog
    /\ writes = 0
    /\ arg = <<>>
    /\ ret = NotCalled

NextTodo == Main /\ run = 0

SpecTodo == InitTodo /\ [][NextTodo]_vars

\* C6 as stated: the work list is exactly the ids that are no key of the
\* loaded mapping.
C6_TodoIsAbsentKeys ==
    (pc = "loop" /\ i = 0) => \A id \in Ids : InSeq(id, todo) <=> ~urls[id].def

\* C6 amended: the work list is exactly the ids whose loaded value is falsy
\* (no key, or the empty string), each once, in ascending order.
C6_TodoIsFalsyValues ==
    (pc = "loop" /\ i = 0) =>
        /\ \A id \in Ids : InSeq(id, todo) <=> ~TruthyUrl(urls[id])
        /\ \A n, o \in 1 .. Len(todo) : n < o => todo[n] < todo[o]

\* C6 witness: a file with an empty-string value was loaded and its id is in
\* the work list, next to an id with a URL that is not.
C6_Witness ==
    /\ pc = "loop" /\ i = 0
    /\ \E a, b \in Ids :
          /\ urls[a] = Str(<<>>) /\ InSeq(a, todo)
          /\ TruthyUrl(urls[b]) /\ ~InSeq(b, todo)

\* C7: getImageUrl is invoked at most once per id and run, and once the run
\* is over exactly once for each id of the work list; an id whose resolution
\* returned no value stays out of the mapping and of the file; and it is in
\* the work list of the next run.
C7_OneAttemptPerRun ==
    /\ [](\A id \in Ids :
            /\ calls[id] <= 1
            /\ pc = "done" => calls[id] = IF InSeq(id, todo) THEN 1 ELSE 0
            /\ (task[id].pc = "done" /\ ~TruthyUrl(task[id].res)) =>
                   /\ ~urls[id].def
                   /\ HoldsMapping(file) => ~MappingOf(file)[id].def)
    /\ [][ (run' = run + 1 /\ pc' = "loop") =>
              \A id \in Ids :
                 (task[id].pc = "done" /\ ~TruthyUrl(task[id].res)) => InSeq(id, todo')
        ]_vars

\* C7 witness: in the second run an id that the first run failed to resolve
\* is attempted again.
C7_Witness ==
    /\ run = 2 /\ prev.ended = "done" /\ ~fresh
    /\ \E id \in Ids : ~prev.urls[id].def /\ calls[id] = 1 /\ task[id].pc = "done"
                          /\ ~TruthyUrl(task[id].res)

\* C8: the mapping changes only by the merge of a value that getImageUrl
\* returned in this run for an id of the work list, and that value is a
\* non-empty string; an id whose call returned no value gets no key.
C8_OnlyResolvedEntriesAdded ==
    [][ (run' = run /\ pc' # "killed") =>
          \A id \in Ids :
             /\ urls'[id] # urls[id] =>
                   /\ pc = "await" /\ pc' = "write"
                   /\ InSeq(id, todo)
                   /\ task[id].pc = "done"
                   /\ TruthyUrl(task[id].res)
                   /\ urls'[id] = task[id].res
             /\ (task[id].pc = "done" /\ ~task[id].res.def) => ~urls'[id].def
      ]_vars

\* C8 witness: a merge has added the URL returned for one id of the chunk and
\* no key for another id whose call returned no value.
C8_Witness ==
    /\ pc = "write"
    /\ \E a, b \in Ids :
          /\ InSeq(a, BatchAt(todo, i)) /\ InSeq(b, BatchAt(todo, i))
          /\ TruthyUrl(task[a].res) /\ urls[a] = task[a].res
          /\ ~task[b].res.def /\ ~urls[b].def

\* C9: two consecutive completed runs that both started without the file,
\* with the same external state, end with the same mapping.
C9_Deterministic ==
    (pc = "done" /\ fresh /\ prev.ended = "done" /\ prev.fresh /\ prev.world = world0)
        => urls = prev.urls

\* C9 witness: in a second run from no file, with the external state of the
\* first, the calls of the first chunk returned in the opposite order of the
\* ids, and the merge gave two ids the two different URLs of the first run.
C9_Witness ==
    /\ pc = "write" /\ i = 0
    /\ fresh /\ prev.ended = "done" /\ prev.fresh /\ prev.world = world0
    /\ \E a, b \in 1 .. Len(settled) :
          /\ a < b /\ settled[a] > settled[b]
          /\ urls[settled[a]].def /\ urls[settled[b]].def
          /\ urls[settled[a]] # urls[settled[b]]
          /\ urls[settled[a]] = prev.urls[settled[a]]
          /\ urls[settled[b]] = prev.urls[settled[b]]

\* C10: a run that finds an unparseable file ends at once in an uncaught
\* error, with no request issued and the file untouched; nothing but a new
\* run or the user's deletion follows.
C10_MalformedFileIsFatal ==
    [][ /\ (run' = run + 1 /\ file.exists /\ ~JSONparse(file.text).ok) =>
              /\ pc' = "crashed"
              /\ file' = file
              /\ \A id \in Ids : task'[id].pc = "idle" /\ calls'[id] = 0
        /\ (pc = "crashed" /\ run' = run) =>
              /\ pc' = "crashed"
              /\ file' \in {file, NoFile}
              /\ task' = task /\ calls' = calls
      ]_vars

\* C10 witness: a run has crashed on a file that a kill inside a write left
\* unparseable.
C10_Witness ==
    /\ pc = "crashed" /\ prev.ended = "killed"
    /\ file.exists /\ ~JSONparse(file.text).ok
    /\ \A id \in Ids : task[id].pc = "idle"

\* For every external state, id and endpoint: the answer to the eth_call of
\* getImageUrl(id), the token URI it decodes to and how the call goes on
\* with it, computed once.
Answers ==
    [w \in Worlds |-> [id \in Ids |-> [k \in 1 .. Len(RPCS) |->
        LET ans == RpcAnswer(w, k, encodeTokenURI(id)) IN
        [ans  |-> ans,
         uri  |-> IF ans.t = "result" THEN decodeABIString(ans.hex) ELSE Null,
         then |-> IF ans.t = "result" THEN AfterHex(ans.hex) ELSE IdleTask]]]]

\* The answer a run gets from endpoint k for id, and whether it carries a
\* truthy result.
AnswerOf(id, k) == Answers[world0][id][k].ans
Usable(id, k) == AnswerOf(id, k).t = "result" /\ AnswerOf(id, k).hex # <<>>

\* C11: callRPC contacts the endpoints one at a time in list order, going to
\* the next one only when the one before threw or had no usable result; it
\* returns the result of the first endpoint with a truthy result and
\* contacts none after it; it raises exactly when all endpoints have been
\* tried without a result.
C11_EndpointsInOrder ==
    \A id \in Ids :
       LET l == log[id]
           n == Len(l.asked)
           over == task[id].pc \in {"fetch", "done"}
           got == Answers[world0][id][n].then
       IN  /\ n <= Len(RPCS)
           /\ \A j \in 1 .. n : l.asked[j] = j
           /\ \A j \in 1 .. (n - 1) : ~Usable(id, j)
           /\ l.open <= 1
           /\ task[id].pc = "rpc" => task[id].k = n /\ l.open = 1
           /\ l.raised <=> (over /\ n = Len(RPCS) /\ \A j \in 1 .. n : ~Usable(id, j))
           /\ (over /\ ~l.raised) =>
                  /\ Usable(id, n)
                  /\ \/ task[id] = got
                     \/ /\ got.pc = "fetch"
                        /\ task[id] = AfterFetch(HttpAnswer(world0, id, got.url))

\* C11 witness: one resolution got its result from the third endpoint after
\* the first two failed, and in another callRPC raised after three failures.
C11_Witness ==
    \E a, b \in Ids :
       /\ log[a].asked = <<1, 2, 3>> /\ ~log[a].raised
       /\ task[a].pc = "done" /\ TruthyUrl(task[a].res)
       /\ log[b].asked = <<1, 2, 3>> /\ log[b].raised /\ task[b].pc = "done"

\* C12: getImageUrl never fails.  Every call is pending or has returned, a
\* call whose callRPC raised has returned no value, and once every call of
\* a chunk has settled the merge of the chunk can be taken, and after it
\* the write.
C12_ResolutionNeverFails ==
    /\ \A id \in Ids :
          /\ task[id].pc \in {"idle", "rpc", "fetch", "done"}
          /\ log[id].raised => task[id].pc = "done" /\ ~task[id].res.def
          /\ (log[id].raised /\ Running) => ~urls[id].def
    /\ (pc = "await" /\ \A id \in Ids : task[id].pc \notin {"rpc", "fetch"})
          => ENABLED Merge
    /\ pc = "write" => ENABLED Write

\* C12 witness: the first chunk has been merged and written although callRPC
\* raised for one of its ids; the other id is in the file with its URL.
C12_Witness ==
    /\ pc = "loop" /\ i = BATCH /\ writes = 1
    /\ HoldsMapping(file) /\ MappingOf(file) = urls
    /\ \E a, b \in Ids :
          /\ InSeq(a, BatchAt(todo, 0)) /\ InSeq(b, BatchAt(todo, 0))
          /\ log[a].raised /\ ~urls[a].def
          /\ TruthyUrl(urls[b])

\* A resolution that has been invoked and has not returned.
Pending(id) == task[id].pc \in {"rpc", "fetch"}

\* C13: within a run the mapping changes only in the merge step, and that
\* step is taken only when no resolution is pending and no request is open;
\* while a resolution is pending every step leaves the mapping as it is.
C13_MergeOnlyWhenQuiescent ==
    [][ (run' = run /\ pc' # "killed") =>
          /\ urls' # urls =>
                /\ pc = "await" /\ pc' = "write"
                /\ \A id \in Ids : ~Pending(id) /\ log[id].open = 0
          /\ (\E id \in Ids : Pending(id)) => urls' = urls
      ]_vars

\* C13 witness: the first chunk has been merged into the mapping and a
\* resolution of the next chunk is pending.
C13_Witness ==
    /\ pc = "await" /\ i > 0
    /\ \E a, b \in Ids :
          /\ InSeq(a, BatchAt(todo, 0)) /\ TruthyUrl(urls[a]) /\ urls[a] = task[a].res
          /\ InSeq(b, BatchAt(todo, i)) /\ Pending(b)

\* ------------------------------------------- the inline token-URI forms
\* The values of a metadata member in the documents tried: no member, the
\* empty string, a plain URL, an ipfs locator, a bare name.
MemberValues ==
    { <<>>, <<"https://", "abc">>, <<"ipfs://", "abc">>, <<"abc">> }

Member(key, v) == << key, "\"" >> \o v \o << "\"" >>

\* The JSON text of a metadata object with the given image and image_url
\* members (Null for a member left out).
MetaText(im, iu) ==
    << "{" >>
      \o (IF im.def THEN Member("\"image\":", im.s) ELSE <<>>)
      \o (IF im.def /\ iu.def THEN << "," >> ELSE <<>>)
      \o (IF iu.def THEN Member("\"image_url\":", iu.s) ELSE <<>>)
      \o << "}" >>

MemberChoices == {Null} \cup { Str(v) : v \in MemberValues }

MetaTexts == { MetaText(im, iu) : im \in MemberChoices, iu \in MemberChoices }

\* encodeURIComponent-style escaping of a text: every character that has an
\* escape sequence in the model, or every such character but the comma.
RECURSIVE PercentEncode(_, _)
PercentEncode(s, keep) ==
    IF s = <<>> THEN <<>>
    ELSE LET c == Head(s) IN
         (IF c \notin keep /\ \E n \in 1 .. Len(PctPlain) : PctPlain[n] = c
          THEN << PctEscapes[CHOOSE n \in 1 .. Len(PctPlain) : PctPlain[n] = c] >>
          ELSE << c >>) \o PercentEncode(Tail(s), keep)

\* Token URIs of the two inline forms: every document in base64, fully
\* escaped, escaped but for its commas, and unescaped.
InlineUris ==
    { Base64Prefix \o Base64Encode(t) : t \in MetaTexts }
      \cup { PercentPrefix \o PercentEncode(t, {}) : t \in MetaTexts }
      \cup { PercentPrefix \o PercentEncode(t, {","}) : t \in MetaTexts }
      \cup { PercentPrefix \o t : t \in MetaTexts }

InitInline ==
    /\ arg \in InlineUris
    /\ ret = NotCalled
    /\ file = NoFile
    /\ dir = FALSE
    /\ world = NoWorld
    /\ run = 0
    /\ pc = "init"
    /\ urls = NoUrls
    /\ todo = <<>>
    /\ i = 0
    /\ done = 0
    /\ task = [id \in Ids |-> IdleTask]
    /\ settled = <<>>
    /\ calls = [id \in Ids |-> 0]
    /\ fresh = FALSE
    /\ world0 = NoWorld
    /\ prev = NoPrev
    /\ log = NoLog
    /\ writes = 0

\* getImageUrl from line 48 on, for an RPC result that encodes arg: the
\* metadata parsed at lines 52-55 and the state the call is left in.
ResolveInline ==
    /\ ~ret.called
    /\ ret' = [called |-> TRUE,
               metadata |-> InlineMetadata(arg),
               task |-> AfterHex(AbiEncodeString(arg))]
    /\ UNCHANGED << file, dir, world, run, pc, urls, todo, i, done, task, settled, calls,
                    fresh, world0, prev, log, writes, arg >>

SpecInline == InitInline /\ [][ResolveInline]_vars

\* The text after the first comma of a string.
AfterFirstComma(s) == SubSeq(s, IndexFrom(s, ",", 1) + 1, Len(s))

\* The metadata document of an inline token URI as the decoding and parse of
\* everything after its first comma.
MetadataOfRemainder(tokenURI) ==
    IF UriForm(tokenURI) = "base64"
    THEN JSONparseMetadata(Base64Decode(AfterFirstComma(tokenURI)))
    ELSE LET dec == decodeURIComponent(AfterFirstComma(tokenURI)) IN
         IF dec.ok THEN JSONparseMetadata(dec.s) ELSE NoMetadata

\* C14: for a token URI of an inline form the metadata document is the JSON
\* parse of the decoding of everything after the first comma, whatever the
\* payload, and the call returns without a metadata request.
C14_InlineParsesRemainder ==
    ret.called =>
        /\ ret.metadata = MetadataOfRemainder(arg)
        /\ ret.task.pc = "done"
        /\ ret.task = Returned(ImageOf(MetadataOfRemainder(arg)))

\* --------------------------------------- the image of a metadata document
\* Documents whose image member is not a string.
NumberTexts ==
    { << "{", "\"image\":", "1", "}" >>,
      << "{", "\"image\":", "1", ",", "\"image_url\":", "\"", "https://", "abc", "\"", "}" >>,
      << "{", "\"image\":", "\"", "\"", ",", "\"image_url\":", "1", "}" >>,
      << "{", "\"name\":", "\"", "abc", "\"", "}" >> }

UriForms == { "base64", "percent", "ipfs", "http" }

Base64Encodable(t) ==
    \A n \in 1 .. Len(t) : \E m \in 1 .. Len(B64Plain) : B64Plain[m] = t[n]

\* A metadata document and the token-URI form that delivers it.
Deliveries ==
    { d \in [form : UriForms, text : MetaTexts \cup NumberTexts] :
         d.form = "base64" => Base64Encodable(d.text) }

\* The token URI of a delivery; the two fetched forms point at the document.
UriOf(d) ==
    IF d.form = "base64" THEN Base64Prefix \o Base64Encode(d.text)
    ELSE IF d.form = "percent" THEN PercentPrefix \o PercentEncode(d.text, {})
    ELSE IF d.form = "ipfs" THEN << "ipfs://", "meta" >>
    ELSE << "https://", "meta" >>

InitImage ==
    /\ arg \in Deliveries
    /\ ret = NotCalled
    /\ file = NoFile
    /\ dir = FALSE
    /\ world = NoWorld
    /\ run = 0
    /\ pc = "init"
    /\ urls = NoUrls
    /\ todo = <<>>
    /\ i = 0
    /\ done = 0
    /\ task = [id \in Ids |-> IdleTask]
    /\ settled = <<>>
    /\ calls = [id \in Ids |-> 0]
    /\ fresh = FALSE
    /\ world0 = NoWorld
    /\ prev = NoPrev
    /\ log = NoLog
    /\ writes = 0

\* getImageUrl from line 48 on, for an RPC result that encodes the token URI
\* of the delivery and a metadata request that is answered with the document.
ResolveImage ==
    /\ ~ret.called
    /\ LET uri   == UriOf(arg)
           first == AfterHex(AbiEncodeString(uri))
           last  == IF first.pc = "fetch"
                    THEN AfterFetch([t |-> "ok", body |-> arg.text])
                    ELSE first
       IN  ret' = [called |-> TRUE,
                   metadata |-> IF first.pc = "fetch" THEN JSONparseMetadata(arg.text)
                                ELSE InlineMetadata(uri),
                   fetched |-> first.pc = "fetch",
                   res |-> last.res]
    /\ UNCHANGED << file, dir, world, run, pc, urls, todo, i, done, task, settled, calls,
                    fresh, world0, prev, log, writes, arg >>

SpecImage == InitImage /\ [][ResolveImage]_vars

\* The member the result is taken from: image if truthy, else image_url if
\* truthy, else nothing.
Chosen(metadata) ==
    IF Truthy(metadata.image) THEN metadata.image
    ELSE IF Truthy(metadata.image_url) THEN metadata.image_url
    ELSE Absent

\* A chosen value as the result: the gateway form of an ipfs locator, any
\* other value unchanged.
Rewritten(v) ==
    IF v.t = "str" /\ StartsWith(v.s, <<"ipfs://">>)
    THEN Str(Gateway \o SubSeq(v.s, 2, Len(v.s)))
    ELSE Str(v.s)

\* C15 as stated: the result is the image member if non-empty, else the
\* image_url member if non-empty, else no value, rewritten to the gateway
\* when it starts with ipfs:// and unchanged otherwise, for every metadata.
C15_ImageByFields ==
    (ret.called /\ ret.metadata.ok) =>
        ret.res = IF Chosen(ret.metadata) = Absent THEN Null
                  ELSE Rewritten(Chosen(ret.metadata))

\* C15: whichever form delivered the metadata, the result is a function of
\* the metadata: no value when the chosen member (image if truthy, else
\* image_url if truthy) is missing or is not a string, else the chosen
\* string, rewritten to the gateway when it starts with ipfs://.
C15_ImageByStringFields ==
    (ret.called /\ ret.metadata.ok) =>
        /\ ret.metadata = JSONparseMetadata(arg.text)
        /\ ret.fetched <=> arg.form \in {"ipfs", "http"}
        /\ ret.res = IF Chosen(ret.metadata).t # "str" THEN Null
                     ELSE Rewritten(Chosen(ret.metadata))

\* C15 witness: a fetched document whose image is a number and whose
\* image_url is a URL gave no value.
C15_Witness ==
    /\ ret.called /\ ret.metadata.ok /\ arg.form = "ipfs"
    /\ ret.metadata.image.t = "num"
    /\ ret.metadata.image_url = JStr(<<"https://", "abc">>)
    /\ ret.res = Null

\* ------------------------------------------------- the ABI string decoder
\* The characters of the strings tried exhaustively: the lowest and the
\* highest byte value of the alphabet and some in between.
CodecChars == { "data:application/json", ",", "ipfs://", "abc", "1", "b8" }

RECURSIVE StringsUpTo(_)
StringsUpTo(n) ==
    IF n = 0 THEN { <<>> }
    ELSE LET shorter == StringsUpTo(n - 1) IN
         shorter \cup { Append(t, c) : t \in shorter, c \in CodecChars }

\* Strings that end just below, at and above a word boundary of the payload.
LongStrings == { Repeat("abc", n) : n \in {31, 32, 33, 65} }

\* An eth_call result that encodes s, with or without the 0x prefix.
Encoded(s, prefixed) ==
    [kind |-> "encoded", s |-> s,
     hex  |-> IF prefixed THEN AbiEncodeString(s)
              ELSE Slice(AbiEncodeString(s), 2, Len(AbiEncodeString(s)))]

\* A hex string of fewer than HeadHex digits (after the prefix, if any): the
\* first n digits of an encoding.
Short(n, prefixed) ==
    [kind |-> "short", s |-> <<>>,
     hex  |-> (IF prefixed THEN <<"0", "x">> ELSE <<>>)
                 \o Slice(AbiEncodeString(<<"abc">>), 2, 2 + n)]

CodecInputs ==
    { Encoded(t, p) : t \in StringsUpTo(MaxStr) \cup LongStrings, p \in BOOLEAN }
      \cup { Short(n, p) : n \in {0, 1, 2, 64, 126, 127}, p \in BOOLEAN }

InitCodec ==
    /\ arg \in CodecInputs
    /\ ret = NotCalled
    /\ file = NoFile
    /\ dir = FALSE
    /\ world = NoWorld
    /\ run = 0
    /\ pc = "init"
    /\ urls = NoUrls
    /\ todo = <<>>
    /\ i = 0
    /\ done = 0
    /\ task = [id \in Ids |-> IdleTask]
    /\ settled = <<>>
    /\ calls = [id \in Ids |-> 0]
    /\ fresh = FALSE
    /\ world0 = NoWorld
    /\ prev = NoPrev
    /\ log = NoLog
    /\ writes = 0

\* Line 48: decodeABIString is applied to the input.
Decode ==
    /\ ~ret.called
    /\ ret' = [called |-> TRUE, val |-> decodeABIString(arg.hex)]
    /\ UNCHANGED << file, dir, world, run, pc, urls, todo, i, done, task, settled, calls,
                    fresh, world0, prev, log, writes, arg >>

SpecCodec == InitCodec /\ [][Decode]_vars

\* C16: decoding the ABI encoding of a string s, with or without the 0x
\* prefix, returns s; decoding an input of fewer than 128 hex digits after
\* the optional prefix returns no value.
C16_DecodeInvertsEncode ==
    ret.called =>
        /\ arg.kind = "encoded" => ret.val = Str(arg.s)
        /\ arg.kind = "short" => ret.val = Null

\* C16 witness: a string of 33 bytes, whose payload takes two words, was
\* decoded from its prefixed encoding; its encoding has four words.
C16_Witness ==
    /\ ret.called /\ arg.kind = "encoded"
    /\ Len(arg.s) = 33 /\ Len(arg.hex) = 2 + 4 * WordHex
    /\ ret.val = Str(arg.s)

\* The pending request of id's resolution is one that never completes.
Hung(id) ==
    \/ /\ task[id].pc = "rpc"
       /\ Answers[world][id][task[id].k].ans.t = "hang"
    \/ /\ task[id].pc = "fetch"
       /\ HttpAnswer(world, id, task[id].url).t = "hang"

\* C17: while a request of the chunk never completes, the run waits in that
\* chunk: no id of the chunk is in the mapping or in the file, whatever its
\* own resolution returned, and every step short of a kill leaves the
\* request pending, the mapping, the file and the loop position as they
\* are, starts no call for an id outside the chunk and does not end the run.
C17_HungCallBlocksChunk ==
    /\ []((\E id \in Ids : Hung(id)) =>
            /\ pc = "await"
            /\ \A n \in 1 .. Len(BatchAt(todo, i)) :
                   LET b == BatchAt(todo, i)[n] IN
                   /\ ~urls[b].def
                   /\ HoldsMapping(file) => ~MappingOf(file)[b].def
            /\ \A n \in (i + BATCH + 1) .. Len(todo) : task[todo[n]].pc = "idle")
    /\ [][ \A id \in Ids :
              (Hung(id) /\ pc' # "killed") =>
                  /\ task'[id] = task[id] /\ world' = world
                  /\ pc' = "await" /\ i' = i
                  /\ urls' = urls /\ file' = file /\ writes' = writes
       ]_vars

\* C17 witness: one call of the chunk has returned a URL while the request
\* of another call of the same chunk never completes; the URL is neither in
\* the mapping nor in the file.
C17_Witness ==
    /\ pc = "await"
    /\ \E a, b \in Ids :
          /\ InSeq(a, BatchAt(todo, i)) /\ InSeq(b, BatchAt(todo, i))
          /\ Hung(a)
          /\ task[b].pc = "done" /\ TruthyUrl(task[b].res)
          /\ ~urls[b].def /\ ~file.exists

\* ------------------------------------------ runs in which every call ends
\* The external states in which every request is answered or throws.
AlwaysAnswers(n) ==
    /\ \A k \in 1 .. Len(RPCS) : Scenarios[n].rpc[k].t # "hang"
    /\ ~Scenarios[n].http.hang

LiveWorlds == { w \in Worlds : \A id \in Ids : AlwaysAnswers(w[id]) }

InitLive == Init /\ world \in LiveWorlds

\* Runs of main that nothing interrupts, one after the other, in an
\* unchanged world.
NextLive ==
    \/ Main
    \/ Launch
    \/ \E id \in Ids : RpcReply(id)
    \/ \E id \in Ids : FetchReply(id)
    \/ Merge
    \/ Write
    \/ Finish

\* The pending POST of id's resolution is one that gets an answer: the
\* condition under which RpcReply(id) can be taken.
RpcReplyEnabled(id) ==
    /\ pc = "await"
    /\ task[id].pc = "rpc"
    /\ RpcAnswer(world, task[id].k, encodeTokenURI(id)).t # "hang"

\* Weak fairness of RpcReply(id), written out with its enabling condition.
RpcReplyFair(id) ==
    \/ []<>(~RpcReplyEnabled(id))
    \/ []<><<RpcReply(id)>>_vars

\* The event loop runs every continuation whose awaited promise has settled
\* and every synchronous step of main; a request that is answered is
\* answered eventually.  Starting a run is left to the user.
SpecLive ==
    /\ InitLive
    /\ [][NextLive]_vars
    /\ WF_vars(Launch)
    /\ \A id \in Ids : RpcReplyFair(id)
    /\ \A id \in Ids : WF_vars(FetchReply(id))
    /\ WF_vars(Merge)
    /\ WF_vars(Write)
    /\ WF_vars(Finish)

CeilDiv(n, d) == (n + d - 1) \div d

\* C18: when every request completes and every write succeeds, a run of
\* main ends normally; at its end it has written the file once per chunk,
\* ceil(|todo| / BATCH) times, has attempted every id of the work list once
\* and reports the size of the work list; chunks and writes alternate; a run
\* with an empty work list issues no request and writes nothing.
C18_RunTerminates ==
    /\ [](pc = "done" =>
            /\ writes = CeilDiv(Len(todo), BATCH)
            /\ done = Len(todo)
            /\ \A id \in Ids : calls[id] = IF InSeq(id, todo) THEN 1 ELSE 0
            /\ \A id \in Ids : InSeq(id, todo) => task[id].pc = "done")
    /\ [](Running =>
            /\ writes * BATCH = i
            /\ todo = <<>> => writes = 0 /\ log = NoLog /\ calls = [id \in Ids |-> 0])
    /\ [][ (writes' = writes + 1) <=> (pc = "write" /\ pc' = "loop") ]_vars
    /\ (pc \in {"loop", "await", "write"}) ~> (pc = "done")

\* C18 witness: a run whose work list took two chunks has ended after two
\* writes with the count at the size of the work list.
C18_Witness ==
    /\ pc = "done" /\ Len(todo) = NumIds /\ Len(todo) > BATCH
    /\ writes = 2 /\ done = Len(todo)
    /\ HoldsMapping(file) /\ MappingOf(file) = urls

\* The number of requests sent and not completed, over the ids from id on.
RECURSIVE OpenFrom(_)
OpenFrom(id) == IF id >= NumIds THEN 0 ELSE log[id].open + OpenFrom(id + 1)

InFlight == OpenFrom(0)

\* C19: at most BATCH requests are in flight.  Every open request belongs
\* to an id of the one chunk main is waiting for, a chunk has at most BATCH
\* ids, a resolution has at most one request open, and its only metadata
\* request is sent after callRPC has ended with a result that decodes to a
\* non-empty token URI.
C19_BoundedInFlight ==
    /\ InFlight <= BATCH
    /\ Len(BatchAt(todo, i)) <= BATCH
    /\ \A id \in Ids :
          LET l == log[id]
              n == Len(l.asked)
              tokenURI == Answers[world0][id][n].uri
          IN  /\ l.open \in {0, 1}
              /\ l.open = 1 <=> Pending(id)
              /\ l.open = 1 => pc = "await" /\ InSeq(id, BatchAt(todo, i))
              /\ l.gets <= 1
              /\ task[id].pc = "rpc" => l.gets = 0
              /\ task[id].pc = "fetch" => l.gets = 1
              /\ l.gets = 1 =>
                     /\ ~l.raised /\ Usable(id, n)
                     /\ tokenURI.def /\ tokenURI.s # <<>>
                     /\ UriForm(tokenURI.s) \in {"ipfs", "http"}

\* C19 witness: BATCH requests are in flight, one a metadata request and
\* one a POST to a later endpoint.
C19_Witness ==
    /\ pc = "await" /\ InFlight = BATCH
    /\ \E a, b \in Ids :
          /\ task[a].pc = "fetch" /\ log[a].gets = 1 /\ log[a].open = 1
          /\ task[b].pc = "rpc" /\ task[b].k > 1 /\ log[b].open = 1

====
